---- MODULE Spec2Model ----
(***************************************************************************)
(* State reconciliation core of the free4talk tracker: the store (users,   *)
(* rooms, sessions tables of database/schema.sql with the triggers and     *)
(* constraints that act on them), the queries of db.js, and                *)
(* SessionTracker.processRoom of tracker.js.                               *)
(***************************************************************************)
EXTENDS Integers, Sequences, FiniteSets, TLC

\* ---------------------------------------------------------------- bounds
UserIds == {"u1", "u2"}
RoomIds == {"r1", "r2", "r3"}
\* the room the reconciliation specification sweeps
ReconcileRooms == {"r1"}
\* the single user of the cross-room and profile specifications, and the
\* rooms of the cross-room specification
FrameUsers == {"u1"}
FrameRooms == {"r1", "r2"}
\* wall-clock readings (new Date()) range over 0..MaxTime; the clock is an
\* input of every call and may step backwards between two calls
MaxTime == 1
\* rows of the sessions table
MaxSessions == 2
\* length of a participants array handed to processRoom
MaxParticipants == 2
\* length of the id list handed to markInactiveRooms
MaxSweep == 2
\* platform-reported counters range over 0..MaxCount
MaxCount == 2
\* room elements the page shows during one cycle's scroll loop
MaxScraped == 3
\* iterations of the scroll loop of index.js (for i < 50), cut down
ScrollLimit == 4
\* room elements visible at one scroll position
MaxVisible == 2
\* index.js: const maxScrollsWithoutNew = 3
maxScrollsWithoutNew == 3
\* entries of one raw payload handed to parseSnapshot
MaxPayload == 3
\* groups of one saveToDatabase call
MaxGroups == 2

\* SQL NULL of a TIMESTAMP / INTEGER column
NULL == -1000

Times == 0..MaxTime
Counts == 0..MaxCount
\* config.scraper.batchSize: rooms reconciled in parallel by the polling driver
BatchSize == 2
\* the store clock held at one reading, for runs that vary the tracker's clock
StoreEpoch == {0}
\* the pairs of a tracker clock reading and a store clock reading
Clocks(D, S) == [date : D, store : S]

VARIABLES
    users,          \* users table: user_id -> row
    rooms,          \* rooms table: room_id -> row
    sessions,       \* sessions table: sequence of rows, index = session_id
    activeSessions, \* SessionTracker.activeSessions as a set of <<user_id, room_id>>
    last,           \* the last call: its arguments and what it returned
    driver          \* the polling driver: its cycle, the rooms it collected, its tasks

vars == <<users, rooms, sessions, activeSessions, last, driver>>

Range(s) == {s[i] : i \in DOMAIN s}

SeqsUpTo(S, n) == UNION {[1..k -> S] : k \in 0..n}

\* every order in which a SELECT without ORDER BY may return the set S
Orders(S) == {o \in [1..Cardinality(S) -> S] : \A i, j \in DOMAIN o : i # j => o[i] # o[j]}

\* no injected store error: user is the index of the participant whose
\* upsertUser query fails (0: none), analytics whether the room_analytics
\* query fails, activity whether the INSERTs into user_activity_log fail
NoFault == [user |-> 0, analytics |-> FALSE, activity |-> FALSE]

NoCall == [op |-> "none", room_id |-> "", user_id |-> "", ids |-> {}, time |-> 0,
           counts |-> <<>>, status |-> "ok", joined |-> 0, left |-> 0, rows |-> 0,
           log |-> <<>>, fault |-> NoFault, observed |-> <<>>, result |-> <<>>]

\* ------------------------------------------------------------ the store

\* the sessions table without its CHECK constraint
valid_session_times_dropped(row) == TRUE

\* CONSTRAINT valid_session_times
valid_session_times(row) == row.left_at = NULL \/ row.left_at >= row.joined_at

\* the distinct users with an active session in a room (trigger subquery)
ActiveUsersIn(ss, room_id) ==
    {ss[i].user_id : i \in {j \in DOMAIN ss : ss[j].room_id = room_id /\ ss[j].is_currently_active}}

\* trigger update_room_user_count, AFTER INSERT OR UPDATE ON sessions
update_room_user_count(rs, ss, room_id) ==
    [r \in DOMAIN rs |->
        IF r = room_id
        THEN [rs[r] EXCEPT !.current_users_count = Cardinality(ActiveUsersIn(ss, room_id))]
        ELSE rs[r]]

\* a counter as upsertUser binds it: userData.x || 0
CounterValue(stored, observed) == observed

\* userData.user_avatar || null ("" stands for a missing or empty value)
AvatarValue(observed) == IF observed = "" THEN "null" ELSE observed

\* userData.verification_status || 'UNVERIFIED'
VerificationValue(observed) == IF observed = "" THEN "UNVERIFIED" ELSE observed

\* userData.supporter_level || 0 (NULL stands for a missing value); the
\* column is a plain INTEGER
SupporterValue(observed) == IF observed \in {NULL, 0} THEN 0 ELSE observed

\* first_seen written by every later upsert
FirstSeenValue_reset(had, stored, now) == now

\* first_seen: NOW() in the INSERT, absent from ON CONFLICT DO UPDATE SET
FirstSeenValue(had, stored, now) == IF had THEN stored ELSE now

\* db.upsertUser: INSERT ... ON CONFLICT (user_id) DO UPDATE, at store time now
upsertUser(us, userData, now) ==
    LET id == userData.user_id
        had == id \in DOMAIN us
        row == [user_id |-> id,
                username |-> userData.username,
                user_avatar |-> AvatarValue(userData.user_avatar),
                verification_status |-> VerificationValue(userData.verification_status),
                followers_count |-> CounterValue(IF had THEN us[id].followers_count ELSE 0,
                                                 userData.followers_count),
                following_count |-> CounterValue(IF had THEN us[id].following_count ELSE 0,
                                                 userData.following_count),
                friends_count   |-> CounterValue(IF had THEN us[id].friends_count ELSE 0,
                                                 userData.friends_count),
                supporter_level |-> SupporterValue(userData.supporter_level),
                last_seen |-> now,
                first_seen |-> FirstSeenValue(had, IF had THEN us[id].first_seen ELSE now, now)]
    IN  [u \in DOMAIN us \cup {id} |-> IF u = id THEN row ELSE us[u]]

\* SELECT * FROM users WHERE user_id = $1: the rows of the result
OldUser(us, user_id) == IF user_id \in DOMAIN us THEN <<us[user_id]>> ELSE <<>>

\* one tracked field of logUserProfileChanges: <<old, new>> when it differs
FieldChange(old, new) == IF old # new THEN <<old, new>> ELSE <<>>

\* db.logUserProfileChanges: the rows it appends to user_activity_log
logUserProfileChanges(oldUser, newUser) ==
    LET changes == [followers_count |-> FieldChange(oldUser.followers_count, newUser.followers_count),
                    following_count |-> FieldChange(oldUser.following_count, newUser.following_count),
                    friends_count   |-> FieldChange(oldUser.friends_count, newUser.friends_count),
                    username        |-> FieldChange(oldUser.username, newUser.username)]
    IN  IF \E k \in DOMAIN changes : changes[k] # <<>>
        THEN <<[user_id |-> newUser.user_id, activity_type |-> "profile_update",
                activity_data |-> changes]>>
        ELSE <<>>

\* the change log written whether or not the user existed before; a missing
\* row compares as a record with every tracked field unset
ProfileLog_unguarded(oldRows, newUser) ==
    logUserProfileChanges(IF Len(oldRows) > 0 THEN oldRows[1]
                          ELSE [followers_count |-> 0, following_count |-> 0,
                                friends_count |-> 0, username |-> ""],
                          newUser)

\* upsertUser: "Log profile changes if user existed before"
ProfileLog(oldRows, newUser) ==
    IF Len(oldRows) > 0 THEN logUserProfileChanges(oldRows[1], newUser) ELSE <<>>

\* db.upsertRoom: INSERT ... ON CONFLICT (room_id) DO UPDATE, at store time now
upsertRoom(rs, roomData, now) ==
    LET id  == roomData.room_id
        had == id \in DOMAIN rs
        row == [is_active |-> roomData.is_active # FALSE,
                current_users_count |-> roomData.current_users_count,
                first_seen |-> FirstSeenValue(had, IF had THEN rs[id].first_seen ELSE now, now)]
    IN  [r \in DOMAIN rs \cup {id} |-> IF r = id THEN row ELSE rs[r]]

\* db.getRoomParticipants: the session rows of the room with
\* is_currently_active = true, joined with users
getRoomParticipants(us, ss, room_id) ==
    {i \in DOMAIN ss : /\ ss[i].room_id = room_id
                       /\ ss[i].is_currently_active
                       /\ ss[i].user_id \in DOMAIN us}

\* db.createSession: INSERT INTO sessions; the foreign keys of the row must
\* resolve. Then, as a second statement of its own, the INSERT of the
\* room_join entry into user_activity_log, which fails when logFails; the
\* catch rethrows and the session row of the first statement stays.
\* db is [users, rooms, sessions]; the result adds ok and log, the
\* activity entries the call appended.
createSession(db, sessionData, logFails) ==
    LET row == [user_id |-> sessionData.user_id,
                room_id |-> sessionData.room_id,
                joined_at |-> sessionData.joined_at,
                left_at |-> NULL,
                duration_seconds |-> NULL,
                is_currently_active |-> TRUE]
        ss == Append(db.sessions, row)
    IN  IF sessionData.user_id \in DOMAIN db.users /\ sessionData.room_id \in DOMAIN db.rooms
        THEN [ok |-> ~logFails, users |-> db.users, sessions |-> ss,
              rooms |-> update_room_user_count(db.rooms, ss, sessionData.room_id),
              log |-> IF logFails THEN <<>>
                      ELSE <<[activity_type |-> "room_join",
                              user_id |-> sessionData.user_id,
                              room_id |-> sessionData.room_id]>>]
        ELSE [ok |-> FALSE, users |-> db.users, sessions |-> db.sessions, rooms |-> db.rooms,
              log |-> <<>>]

\* the WHERE clause without its left_at IS NULL condition
EndWhere_closedToo(row, roomId, userId) ==
    row.room_id = roomId /\ row.user_id = userId

\* the WHERE clause without its room_id condition
EndWhere_anyRoom(row, roomId, userId) ==
    row.user_id = userId /\ row.left_at = NULL

\* WHERE clause of the UPDATE in db.endAllSessionsInRoom
EndWhere(row, roomId, userId) ==
    row.room_id = roomId /\ row.user_id = userId /\ row.left_at = NULL

\* an UPDATE that leaves is_currently_active as it was
ClosedFlag_kept(row) == row.is_currently_active

\* SET ... is_currently_active = false
ClosedFlag(row) == FALSE

\* a room_leave entry whatever the UPDATE returned
LeaveLogged_always(ended) == TRUE

\* "Log activity if sessions were ended": result.rows.length > 0
LeaveLogged(ended) == ended > 0

\* db.endAllSessionsInRoom: one UPDATE statement; it fails as a whole when a
\* row it writes violates valid_session_times. Then, as a second statement
\* of its own, the INSERT of one room_leave entry into user_activity_log,
\* which fails when logFails; the catch rethrows and the rows the UPDATE
\* closed stay closed. The result adds ok, ended (the rows the UPDATE wrote)
\* and log, the activity entries the call appended.
endAllSessionsInRoom(db, roomId, userId, leftAt, logFails) ==
    LET hit == {i \in DOMAIN db.sessions : EndWhere(db.sessions[i], roomId, userId)}
        ss == [i \in DOMAIN db.sessions |->
                 IF i \in hit
                 THEN [db.sessions[i] EXCEPT
                         !.left_at = leftAt,
                         !.duration_seconds = leftAt - db.sessions[i].joined_at,
                         !.is_currently_active = ClosedFlag(db.sessions[i])]
                 ELSE db.sessions[i]]
        logged == LeaveLogged(Cardinality(hit))
    IN  IF \A i \in hit : valid_session_times(ss[i])
        THEN [ok |-> ~(logged /\ logFails),
              users |-> db.users, sessions |-> ss, ended |-> Cardinality(hit),
              rooms |-> IF hit = {} THEN db.rooms
                        ELSE update_room_user_count(db.rooms, ss, roomId),
              log |-> IF logged /\ ~logFails
                      THEN <<[activity_type |-> "room_leave",
                              user_id |-> userId,
                              room_id |-> roomId,
                              sessions_ended |-> Cardinality(hit)]>>
                      ELSE <<>>]
        ELSE [ok |-> FALSE, users |-> db.users, sessions |-> db.sessions, ended |-> 0,
              rooms |-> db.rooms, log |-> <<>>]

\* markInactiveRooms without its early return
EmptySweep_noGuard(activeRoomIds) == FALSE

\* the early return of db.markInactiveRooms
EmptySweep(activeRoomIds) == Len(activeRoomIds) = 0

\* the WHERE clause with IN for NOT IN
InactiveWhere_in(row, room_id, activeRoomIds) ==
    row.is_active /\ room_id \in Range(activeRoomIds)

\* WHERE clause of the UPDATE in db.markInactiveRooms
InactiveWhere(row, room_id, activeRoomIds) ==
    row.is_active /\ room_id \notin Range(activeRoomIds)

\* db.markInactiveRooms
markInactiveRooms(rs, activeRoomIds) ==
    IF EmptySweep(activeRoomIds)
    THEN rs
    ELSE [r \in DOMAIN rs |->
            IF InactiveWhere(rs[r], r, activeRoomIds)
            THEN [rs[r] EXCEPT !.is_active = FALSE]
            ELSE rs[r]]

\* ------------------------------------------------- SessionTracker.processRoom

\* a join test that fires for every participant
IsJoin_always(currentUserIds, user_id) == TRUE

\* "If user wasn't in room before, they joined"
IsJoin(currentUserIds, user_id) == user_id \notin currentUserIds

\* a leave test that never fires
IsLeave_never(newUserIds, user_id) == FALSE

\* "Detect leaves"
IsLeave(newUserIds, user_id) == user_id \notin newUserIds

\* The "Detect joins" loop from participant i on. now.date is the reading of
\* new Date() in the tracker, now.store the reading of NOW() in the store. st carries the store, the
\* in-memory map, the counters and ok (FALSE once an await has thrown).
\* fault.user is the index of the participant whose upsertUser query fails
\* with a store error (0: none).
RECURSIVE DetectJoins(_, _, _, _, _, _, _)
DetectJoins(st, i, room_id, participants, currentUserIds, now, fault) ==
    IF i > Len(participants) \/ ~st.ok
    THEN st
    ELSE
        LET p == participants[i] IN
        IF fault.user = i
        THEN [st EXCEPT !.ok = FALSE]
        ELSE
            LET us == upsertUser(st.users, p, now.store) IN
            IF IsJoin(currentUserIds, p.user_id)
            THEN
                LET res == createSession([users |-> us, rooms |-> st.rooms, sessions |-> st.sessions],
                                         [user_id |-> p.user_id, room_id |-> room_id, joined_at |-> now.date],
                                         fault.activity)
                IN  IF res.ok
                    THEN DetectJoins([st EXCEPT !.users = res.users,
                                                !.rooms = res.rooms,
                                                !.sessions = res.sessions,
                                                !.activeSessions = @ \cup {<<p.user_id, room_id>>},
                                                !.joined = @ + 1],
                                     i + 1, room_id, participants, currentUserIds, now, fault)
                    ELSE [st EXCEPT !.users = res.users,
                                    !.rooms = res.rooms,
                                    !.sessions = res.sessions,
                                    !.ok = FALSE]
            ELSE DetectJoins([st EXCEPT !.users = us],
                             i + 1, room_id, participants, currentUserIds, now, fault)

\* The "Detect leaves" loop over currentUserIds in the order the store
\* returned them, from position i on.
RECURSIVE DetectLeaves(_, _, _, _, _, _, _)
DetectLeaves(st, i, room_id, order, newUserIds, now, fault) ==
    IF i > Len(order) \/ ~st.ok
    THEN st
    ELSE
        LET user_id == order[i] IN
        IF IsLeave(newUserIds, user_id)
        THEN
            LET res == endAllSessionsInRoom([users |-> st.users, rooms |-> st.rooms,
                                             sessions |-> st.sessions], room_id, user_id, now.date,
                                            fault.activity)
            IN  IF res.ok
                THEN DetectLeaves([st EXCEPT !.rooms = res.rooms,
                                             !.sessions = res.sessions,
                                             !.activeSessions = @ \ {<<user_id, room_id>>},
                                             !.left = @ + 1],
                                  i + 1, room_id, order, newUserIds, now, fault)
                ELSE [st EXCEPT !.rooms = res.rooms,
                                !.sessions = res.sessions,
                                !.ok = FALSE]
        ELSE DetectLeaves(st, i + 1, room_id, order, newUserIds, now, fault)

\* the users of the room taken from the in-memory map
CurrentUserIds_memory(order, memory, room_id) ==
    {u \in UserIds : <<u, room_id>> \in memory}

\* currentUserIds: the user ids of the rows db.getRoomParticipants returned;
\* this.activeSessions is not consulted
CurrentUserIds(order, memory, room_id) == Range(order)

\* an updateRoomAnalytics whose catch block rethrows
updateRoomAnalyticsThrows_rethrow(queryFails) == queryFails

\* db.updateRoomAnalytics: whether the call throws when its query fails (the
\* catch block logs the error and returns)
updateRoomAnalyticsThrows(queryFails) == FALSE

\* SessionTracker.processRoom({room_id, participants}) run to its end. order is
\* what getRoomParticipants returned. maybeCreateSnapshot and
\* updateRoomAnalytics write room_snapshots and room_analytics only, which are
\* kept outside the state; of the two calls only the outcome is modelled
\* (maybeCreateSnapshot catches every error of its own).
processRoom(st0, room_id, participants, order, now, fault) ==
    LET currentUserIds == CurrentUserIds(order, st0.activeSessions, room_id)
        newUserIds == {participants[i].user_id : i \in DOMAIN participants}
        afterJoins == DetectJoins(st0, 1, room_id, participants, currentUserIds, now, fault)
        afterLeaves == DetectLeaves(afterJoins, 1, room_id, order, newUserIds, now, fault)
    IN  IF /\ afterLeaves.ok
           /\ (afterLeaves.joined > 0 \/ afterLeaves.left > 0)
           /\ updateRoomAnalyticsThrows(fault.analytics)
        THEN [afterLeaves EXCEPT !.ok = FALSE]
        ELSE afterLeaves

\* ------------------------------------------------------------ the parser

\* An entry of data.data as parseSnapshot meets it in for..in order: id is
\* r.id, topic is r.topic ("" when missing), and malformed marks an entry
\* whose mapping raises a TypeError (a null entry, a topic that is not a
\* string, clients that are not an array).
MapThrows(r) == r.malformed

\* parseSnapshot, "1. Map Room Data": the room built from one entry
MapRoom(r) ==
    [room_id |-> r.id,
     topic |-> IF r.topic = "" THEN "No Topic" ELSE r.topic,
     is_active |-> TRUE]

\* parseSnapshot: the for..in loop from entry k on, inside the one try block
\* that encloses it; the catch only logs, so the first entry that throws ends
\* the loop
RECURSIVE ParseEntries(_, _, _)
ParseEntries(entries, k, parsed) ==
    IF k > Len(entries) THEN parsed
    ELSE IF MapThrows(entries[k]) THEN parsed
    ELSE ParseEntries(entries, k + 1, Append(parsed, MapRoom(entries[k])))

\* parser.parseSnapshot: { rooms, activeRoomIds }
parseSnapshot(entries) ==
    LET parsed == ParseEntries(entries, 1, <<>>)
    IN  [rooms |-> parsed, activeRoomIds |-> {parsed[k].room_id : k \in DOMAIN parsed}]

\* ------------------------------------------------------ the polling driver

\* the driver between two cycles: no rooms collected, no task in flight.
\* allRoomsData is the list fetchAndProcessRooms collected, i the position of
\* the first room of the batch being awaited, tasks the executions of the
\* batch callback (room position -> task).
IdleDriver ==
    [phase |-> "idle", allRoomsData |-> <<>>, i |-> 1, tasks |-> <<>>]

\* a collection loop that never looks at processedRoomIds
IsNewRoom_always(processedRoomIds, id) == TRUE

\* fetchAndProcessRooms: if (!processedRoomIds.has(id))
IsNewRoom(processedRoomIds, id) == id \notin processedRoomIds

\* fetchAndProcessRooms, phase 1: the scroll loop over the room elements the
\* page showed, in the order it showed them, from element k on
RECURSIVE CollectRooms(_, _, _, _)
CollectRooms(roomsHtml, k, processedRoomIds, allRoomsData) ==
    IF k > Len(roomsHtml)
    THEN allRoomsData
    ELSE IF IsNewRoom(processedRoomIds, roomsHtml[k].room_id)
         THEN CollectRooms(roomsHtml, k + 1, processedRoomIds \cup {roomsHtml[k].room_id},
                           Append(allRoomsData, roomsHtml[k]))
         ELSE CollectRooms(roomsHtml, k + 1, processedRoomIds, allRoomsData)

\* a slice that runs to the end of the array
Batch_rest(allRoomsData, i) == {k \in DOMAIN allRoomsData : i <= k}

\* processBatchRooms: allRoomsData.slice(i, i + batchSize), as positions
Batch(allRoomsData, i) == {k \in DOMAIN allRoomsData : i <= k /\ k < i + BatchSize}

\* batch.map(async (roomData) => ...): every callback of the batch has run up
\* to its first await, the db.upsertRoom query
LaunchBatch(allRoomsData, i) ==
    [k \in Batch(allRoomsData, i) |->
        [room_id |-> allRoomsData[k].room_id, participants |-> allRoomsData[k].participants,
         pc |-> "upsertRoom", order |-> <<>>, outcome |-> ""]]

\* a batch callback without its try/catch: the error leaves the callback
TaskOutcome_rethrow(threw) == IF threw THEN "thrown" ELSE "ok"

\* the batch callback's own try/catch: { success: true } or { success: false }
TaskOutcome(threw) == IF threw THEN "failed" ELSE "ok"

\* await Promise.all(...): settled when every callback of the batch has
\* returned, or as soon as one has thrown
BatchSettled(d) ==
    \/ \A k \in Batch(d.allRoomsData, d.i) : d.tasks[k].pc = "done"
    \/ \E k \in Batch(d.allRoomsData, d.i) : d.tasks[k].outcome = "thrown"

\* ---------------------------------------------------------------- actions

Init ==
    /\ users = <<>>
    /\ rooms = <<>>
    /\ sessions = <<>>
    /\ activeSessions = {}
    /\ last = NoCall
    /\ driver = IdleDriver

\* SessionTracker.initialize: every row of
\* SELECT ... FROM sessions WHERE is_currently_active = true is added to the map
initialize(memory, ss) ==
    memory \cup {<<ss[i].user_id, ss[i].room_id>> :
                    i \in {j \in DOMAIN ss : ss[j].is_currently_active}}

\* process start: new SessionTracker() followed by tracker.initialize()
Initialize ==
    /\ activeSessions' = initialize({}, sessions)
    /\ last' = [NoCall EXCEPT !.op = "initialize"]
    /\ UNCHANGED <<users, rooms, sessions, driver>>

\* SessionTracker.processRoom; note is what the call record keeps of the
\* arguments besides the ids
ProcessRoomCall(room_id, participants, now, fault, note) ==
    /\ \E order \in Orders({sessions[i].user_id : i \in getRoomParticipants(users, sessions, room_id)}) :
        LET st0 == [users |-> users, rooms |-> rooms, sessions |-> sessions,
                    activeSessions |-> activeSessions, joined |-> 0, left |-> 0, ok |-> TRUE]
            st == processRoom(st0, room_id, participants, order, now, fault)
        IN  /\ Len(st.sessions) <= MaxSessions
            /\ users' = st.users
            /\ rooms' = st.rooms
            /\ sessions' = st.sessions
            /\ activeSessions' = st.activeSessions
            /\ last' = [NoCall EXCEPT !.op = "processRoom",
                                      !.room_id = room_id,
                                      !.user_id = IF fault.user \in DOMAIN participants
                                                  THEN participants[fault.user].user_id
                                                  ELSE "",
                                      !.fault = fault,
                                      !.observed = note,
                                      !.ids = {participants[i].user_id : i \in DOMAIN participants},
                                      !.status = IF st.ok THEN "ok" ELSE "error",
                                      !.joined = IF st.ok THEN st.joined ELSE 0,
                                      !.left = IF st.ok THEN st.left ELSE 0]
    /\ UNCHANGED driver

\* SessionTracker.processRoom
ProcessRoom(room_id, participants, now, fault) ==
    ProcessRoomCall(room_id, participants, now, fault, <<>>)

\* parser.parseSnapshot on one raw payload
ParseSnapshot(entries) ==
    /\ last' = [NoCall EXCEPT !.op = "parseSnapshot",
                              !.observed = entries,
                              !.result = parseSnapshot(entries).rooms,
                              !.ids = parseSnapshot(entries).activeRoomIds]
    /\ UNCHANGED <<users, rooms, sessions, activeSessions, driver>>

\* db.upsertRoom
UpsertRoom(roomData, now) ==
    /\ rooms' = upsertRoom(rooms, roomData, now)
    /\ last' = [NoCall EXCEPT !.op = "upsertRoom", !.room_id = roomData.room_id, !.time = now]
    /\ UNCHANGED <<users, sessions, activeSessions, driver>>

\* db.upsertUser
UpsertUser(userData, now) ==
    /\ users' = upsertUser(users, userData, now)
    /\ last' = [NoCall EXCEPT !.op = "upsertUser",
                              !.user_id = userData.user_id,
                              !.time = now,
                              !.rows = Len(OldUser(users, userData.user_id)),
                              !.counts = <<userData.followers_count, userData.following_count,
                                           userData.friends_count>>,
                              !.log = ProfileLog(OldUser(users, userData.user_id),
                                                 users'[userData.user_id]),
                              !.observed = <<userData.username, userData.user_avatar,
                                             userData.verification_status,
                                             userData.supporter_level>>]
    /\ UNCHANGED <<rooms, sessions, activeSessions, driver>>

\* db.createSession; logFails: the store rejects the user_activity_log INSERT
CreateSessionCall(sessionData, logFails) ==
    /\ Len(sessions) < MaxSessions
    /\ LET res == createSession([users |-> users, rooms |-> rooms, sessions |-> sessions],
                                sessionData, logFails)
       IN  /\ sessions' = res.sessions
           /\ rooms' = res.rooms
           /\ last' = [NoCall EXCEPT !.op = "createSession",
                                     !.room_id = sessionData.room_id,
                                     !.user_id = sessionData.user_id,
                                     !.time = sessionData.joined_at,
                                     !.log = res.log,
                                     !.status = IF res.ok THEN "ok" ELSE "error"]
    /\ UNCHANGED <<users, activeSessions, driver>>

\* db.createSession
CreateSession(sessionData) == CreateSessionCall(sessionData, FALSE)

\* db.endAllSessionsInRoom; logFails: the store rejects the
\* user_activity_log INSERT
EndAllSessionsInRoomCall(roomId, userId, leftAt, logFails) ==
    /\ LET res == endAllSessionsInRoom([users |-> users, rooms |-> rooms, sessions |-> sessions],
                                       roomId, userId, leftAt, logFails)
       IN  /\ sessions' = res.sessions
           /\ rooms' = res.rooms
           /\ last' = [NoCall EXCEPT !.op = "endAllSessionsInRoom",
                                     !.room_id = roomId,
                                     !.user_id = userId,
                                     !.time = leftAt,
                                     !.status = IF res.ok THEN "ok" ELSE "error",
                                     !.log = res.log,
                                     !.rows = res.ended]
    /\ UNCHANGED <<users, activeSessions, driver>>

\* db.endAllSessionsInRoom
EndAllSessionsInRoom(roomId, userId, leftAt) ==
    EndAllSessionsInRoomCall(roomId, userId, leftAt, FALSE)

\* db.markInactiveRooms
MarkInactiveRooms(activeRoomIds) ==
    /\ rooms' = markInactiveRooms(rooms, activeRoomIds)
    /\ last' = [NoCall EXCEPT !.op = "markInactiveRooms",
                              !.ids = Range(activeRoomIds),
                              !.rows = Cardinality({r \in DOMAIN rooms :
                                           rooms[r].is_active /\ ~rooms'[r].is_active})]
    /\ UNCHANGED <<users, sessions, activeSessions, driver>>

\* a participant as the polling driver builds it (processRoomsData)
Participant(u) ==
    [user_id |-> u, username |-> u, user_avatar |-> "", verification_status |-> "UNVERIFIED",
     followers_count |-> 0, following_count |-> 0, friends_count |-> 0,
     supporter_level |-> NULL]

\* the room record the polling driver upserts (processRoomsData)
DriverRoom(r) == [room_id |-> r, is_active |-> TRUE, current_users_count |-> 0]

\* the participants arrays over the users U
ParticipantLists(U) ==
    {[i \in DOMAIN us |-> Participant(us[i])] : us \in SeqsUpTo(U, MaxParticipants)}

\* cycle(): fetchAndProcessRooms collects the rooms the page shows and
\* processBatchRooms launches the first batch
StartCycle(roomsHtml) ==
    /\ driver.phase = "idle"
    /\ LET allRoomsData == CollectRooms(roomsHtml, 1, {}, <<>>)
       IN  /\ driver' = [phase |-> "processing",
                         allRoomsData |-> allRoomsData,
                         i |-> 1,
                         tasks |-> LaunchBatch(allRoomsData, 1) @@ driver.tasks]
           /\ last' = [NoCall EXCEPT !.op = "cycle"]
    /\ UNCHANGED <<users, rooms, sessions, activeSessions>>

\* batch callback, first await: db.upsertRoom, which the store may reject
TaskUpsertRoom(k, now, fails) ==
    /\ k \in DOMAIN driver.tasks
    /\ driver.tasks[k].pc = "upsertRoom"
    /\ IF fails
       THEN /\ driver' = [driver EXCEPT !.tasks[k].pc = "done",
                                        !.tasks[k].outcome = TaskOutcome(TRUE)]
            /\ UNCHANGED rooms
       ELSE /\ driver' = [driver EXCEPT !.tasks[k].pc = "read"]
            /\ rooms' = upsertRoom(rooms, DriverRoom(driver.tasks[k].room_id), now)
    /\ last' = [NoCall EXCEPT !.op = "upsertRoom",
                              !.room_id = driver.tasks[k].room_id,
                              !.time = now,
                              !.status = IF fails THEN "error" ELSE "ok"]
    /\ UNCHANGED <<users, sessions, activeSessions>>

\* batch callback inside tracker.processRoom: db.getRoomParticipants
TaskRead(k) ==
    /\ k \in DOMAIN driver.tasks
    /\ driver.tasks[k].pc = "read"
    /\ \E order \in Orders({sessions[i].user_id :
                               i \in getRoomParticipants(users, sessions, driver.tasks[k].room_id)}) :
          driver' = [driver EXCEPT !.tasks[k].pc = "reconcile", !.tasks[k].order = order]
    /\ last' = [NoCall EXCEPT !.op = "getRoomParticipants", !.room_id = driver.tasks[k].room_id]
    /\ UNCHANGED <<users, rooms, sessions, activeSessions>>

\* batch callback inside tracker.processRoom: the joins and leaves computed
\* from the participants read before, then the callback's return
TaskReconcile(k, now) ==
    /\ k \in DOMAIN driver.tasks
    /\ driver.tasks[k].pc = "reconcile"
    /\ LET t == driver.tasks[k]
           st0 == [users |-> users, rooms |-> rooms, sessions |-> sessions,
                   activeSessions |-> activeSessions, joined |-> 0, left |-> 0, ok |-> TRUE]
           st == processRoom(st0, t.room_id, t.participants, t.order, now, NoFault)
       IN  /\ Len(st.sessions) <= MaxSessions
           /\ users' = st.users
           /\ rooms' = st.rooms
           /\ sessions' = st.sessions
           /\ activeSessions' = st.activeSessions
           /\ driver' = [driver EXCEPT !.tasks[k].pc = "done",
                                       !.tasks[k].outcome = TaskOutcome(~st.ok)]
           /\ last' = [NoCall EXCEPT !.op = "processRoom",
                                     !.room_id = t.room_id,
                                     !.ids = {t.participants[j].user_id : j \in DOMAIN t.participants},
                                     !.status = IF st.ok THEN "ok" ELSE "error",
                                     !.joined = IF st.ok THEN st.joined ELSE 0,
                                     !.left = IF st.ok THEN st.left ELSE 0]

\* processBatchRooms: the awaited batch has settled and rooms remain
NextBatch ==
    /\ driver.phase = "processing"
    /\ BatchSettled(driver)
    /\ driver.i + BatchSize <= Len(driver.allRoomsData)
    /\ driver' = [driver EXCEPT !.i = @ + BatchSize,
                                !.tasks = LaunchBatch(driver.allRoomsData, driver.i + BatchSize) @@ @]
    /\ last' = [NoCall EXCEPT !.op = "batch"]
    /\ UNCHANGED <<users, rooms, sessions, activeSessions>>

\* processBatchRooms returns, cycle() logs its summary and schedules the next
\* cycle with setTimeout; a callback still running keeps running
EndCycle ==
    /\ driver.phase = "processing"
    /\ BatchSettled(driver)
    /\ driver.i + BatchSize > Len(driver.allRoomsData)
    /\ driver' = [IdleDriver EXCEPT
                    !.tasks = [k \in {j \in DOMAIN driver.tasks : driver.tasks[j].pc # "done"} |->
                                 driver.tasks[k]]]
    /\ last' = [NoCall EXCEPT !.op = "cycleEnd"]
    /\ UNCHANGED <<users, rooms, sessions, activeSessions>>

\* ------------------------------------- the scrolling driver of index.js

\* a cycle whose error ends the process
CycleOutcome_fatal(threw) == IF threw THEN "exited" ELSE "idle"

\* cycle(): the try/catch around the cycle only logs, and setTimeout
\* schedules the next cycle after either outcome
CycleOutcome(threw) == "idle"

\* the driver after cycle() has returned
AfterCycle(threw) == [IdleDriver EXCEPT !.phase = CycleOutcome(threw)]

\* cycle() calls fetchAndProcessRooms: launch, page.goto and
\* waitForSelector, any of which may fail or time out
ScrollCycleStart(fails) ==
    /\ driver.phase = "idle"
    /\ IF fails
       THEN /\ driver' = AfterCycle(TRUE)
            /\ last' = [NoCall EXCEPT !.op = "cycleEnd", !.status = "fetch_error"]
       ELSE /\ driver' = [phase |-> "scrolling", pc |-> "fetch", processedRoomIds |-> {},
                          roomsToProcess |-> <<>>, newRoomsCount |-> 0, i |-> 0,
                          scrollsWithoutNewRooms |-> 0, mutated |-> FALSE]
            /\ last' = [NoCall EXCEPT !.op = "cycle"]
    /\ UNCHANGED <<users, rooms, sessions, activeSessions>>

\* one iteration of the scroll loop, first half: page.evaluate extracts the
\* visible room elements and the new ones are parsed into roomsToProcess
ScrollFetch(roomsHtml, fails) ==
    /\ driver.phase = "scrolling"
    /\ driver.pc = "fetch"
    /\ IF fails
       THEN /\ driver' = AfterCycle(TRUE)
            /\ last' = [NoCall EXCEPT !.op = "cycleEnd", !.status = "fetch_error",
                                      !.rows = IF driver.mutated THEN 1 ELSE 0]
       ELSE LET new == CollectRooms(roomsHtml, 1, driver.processedRoomIds, <<>>)
            IN  /\ driver' = [driver EXCEPT
                                !.pc = "process",
                                !.processedRoomIds = @ \cup {new[k].room_id : k \in DOMAIN new},
                                !.roomsToProcess = new,
                                !.newRoomsCount = Len(new)]
                /\ last' = [NoCall EXCEPT !.op = "scroll"]
    /\ UNCHANGED <<users, rooms, sessions, activeSessions>>

\* processRoomsData: one iteration of its loop, db.upsertRoom and
\* tracker.processRoom for the next new room, inside the per-room try/catch
ScrollProcess(now) ==
    /\ driver.phase = "scrolling"
    /\ driver.pc = "process"
    /\ driver.roomsToProcess # <<>>
    /\ LET roomData == Head(driver.roomsToProcess)
           rs == upsertRoom(rooms, DriverRoom(roomData.room_id), now.store)
       IN  \E order \in Orders({sessions[i].user_id :
                                   i \in getRoomParticipants(users, sessions, roomData.room_id)}) :
            LET st0 == [users |-> users, rooms |-> rs, sessions |-> sessions,
                        activeSessions |-> activeSessions, joined |-> 0, left |-> 0, ok |-> TRUE]
                st == processRoom(st0, roomData.room_id, roomData.participants, order, now, NoFault)
            IN  /\ Len(st.sessions) <= MaxSessions
                /\ users' = st.users
                /\ rooms' = st.rooms
                /\ sessions' = st.sessions
                /\ activeSessions' = st.activeSessions
                /\ driver' = [driver EXCEPT !.roomsToProcess = Tail(@), !.mutated = TRUE]
                /\ last' = [NoCall EXCEPT !.op = "processRoom",
                                          !.room_id = roomData.room_id,
                                          !.ids = {roomData.participants[j].user_id :
                                                      j \in DOMAIN roomData.participants},
                                          !.status = IF st.ok THEN "ok" ELSE "error",
                                          !.joined = IF st.ok THEN st.joined ELSE 0,
                                          !.left = IF st.ok THEN st.left ELSE 0]

\* a count of empty iterations that is never reset
ScrollsWithoutNew_kept(newRoomsCount, scrollsWithoutNewRooms) == scrollsWithoutNewRooms + 1

\* "Check if done": scrollsWithoutNewRooms++ after an iteration without a new
\* room, scrollsWithoutNewRooms = 0 after any other
ScrollsWithoutNew(newRoomsCount, scrollsWithoutNewRooms) ==
    IF newRoomsCount = 0 THEN scrollsWithoutNewRooms + 1 ELSE 0

\* one iteration of the scroll loop, second half: the "Check if done" test,
\* then page.evaluate(scrollBy), which may fail, and the loop's i++
ScrollAdvance(fails) ==
    /\ driver.phase = "scrolling"
    /\ driver.pc = "process"
    /\ driver.roomsToProcess = <<>>
    /\ LET without == ScrollsWithoutNew(driver.newRoomsCount, driver.scrollsWithoutNewRooms)
       IN  IF driver.newRoomsCount = 0 /\ without >= maxScrollsWithoutNew
           THEN /\ driver' = [driver EXCEPT !.pc = "done", !.scrollsWithoutNewRooms = without]
                /\ last' = [NoCall EXCEPT !.op = "scrollBreak"]
           ELSE IF fails
           THEN /\ driver' = AfterCycle(TRUE)
                /\ last' = [NoCall EXCEPT !.op = "cycleEnd", !.status = "fetch_error",
                                          !.rows = IF driver.mutated THEN 1 ELSE 0]
           ELSE /\ driver' = [driver EXCEPT
                                !.pc = IF driver.i + 1 < ScrollLimit THEN "fetch" ELSE "done",
                                !.i = @ + 1,
                                !.scrollsWithoutNewRooms = without]
                /\ last' = [NoCall EXCEPT !.op = "scrollBy"]
    /\ UNCHANGED <<users, rooms, sessions, activeSessions>>

\* fetchAndProcessRooms returns; cycle() awaits db.getStats, which may fail,
\* logs, and schedules the next cycle
ScrollFinish(fails) ==
    /\ driver.phase = "scrolling"
    /\ driver.pc = "done"
    /\ driver' = AfterCycle(fails)
    /\ last' = [NoCall EXCEPT !.op = "cycleEnd", !.status = IF fails THEN "error" ELSE "ok",
                              !.rows = IF driver.mutated THEN 1 ELSE 0]
    /\ UNCHANGED <<users, rooms, sessions, activeSessions>>

\* ------------------------------------------------------- specifications

\* Reconciliation of one room: the polling driver upserts the room and
\* reconciles it, cycle after cycle.
Next ==
    \/ \E r \in ReconcileRooms, now \in StoreEpoch : UpsertRoom(DriverRoom(r), now)
    \/ \E r \in ReconcileRooms, ps \in ParticipantLists(UserIds), now \in Clocks(Times, StoreEpoch) :
        ProcessRoom(r, ps, now, NoFault)

Spec == Init /\ [][Next]_vars

\* One user seen in several rooms.
NextFrame ==
    \/ \E r \in FrameRooms, now \in StoreEpoch : UpsertRoom(DriverRoom(r), now)
    \/ \E r \in FrameRooms, ps \in ParticipantLists(FrameUsers), now \in Clocks(Times, StoreEpoch) :
        ProcessRoom(r, ps, now, NoFault)

SpecFrame == Init /\ [][NextFrame]_vars

\* The session queries of db.js called directly, with any leave time.
NextDb ==
    \/ \E u \in UserIds, now \in StoreEpoch : UpsertUser(Participant(u), now)
    \/ \E r \in ReconcileRooms, now \in StoreEpoch : UpsertRoom(DriverRoom(r), now)
    \/ \E u \in UserIds, r \in ReconcileRooms, t \in Times :
        CreateSession([user_id |-> u, room_id |-> r, joined_at |-> t])
    \/ \E u \in UserIds, r \in ReconcileRooms, t \in Times :
        EndAllSessionsInRoom(r, u, t)

SpecDb == Init /\ [][NextDb]_vars

\* Room upserts and inactivity sweeps.
NextRooms ==
    \/ \E r \in RoomIds, now \in StoreEpoch : UpsertRoom(DriverRoom(r), now)
    \/ \E ids \in SeqsUpTo(RoomIds, MaxSweep) : MarkInactiveRooms(ids)

SpecRooms == Init /\ [][NextRooms]_vars

\* Profile observations of one user, observation after observation.
NextProfile ==
    \E u \in FrameUsers, a \in Counts, b \in Counts, c \in Counts, now \in StoreEpoch :
        UpsertUser([Participant(u) EXCEPT !.followers_count = a, !.following_count = b,
                                          !.friends_count = c], now)

SpecProfile == Init /\ [][NextProfile]_vars

\* the observations of one user's profile: each counter absent (0) or at its
\* largest, the display name empty or one of two, the avatar and the flag
\* missing or present
ProfileObservations(u) ==
    {[user_id |-> u, username |-> n, user_avatar |-> a, verification_status |-> v,
      followers_count |-> x, following_count |-> y, friends_count |-> z,
      supporter_level |-> NULL] :
        n \in {"", "ann", "bob"}, a \in {"", "a.png"}, v \in {"", "VERIFIED"},
        x \in {0, MaxCount}, y \in {0, MaxCount}, z \in {0, MaxCount}}

\* Profile upserts of one user with every field varying, and the activity
\* entries each upsert appends.
NextLog ==
    \E u \in FrameUsers, now \in StoreEpoch :
        \E userData \in ProfileObservations(u) : UpsertUser(userData, now)

SpecLog == Init /\ [][NextLog]_vars

\* User and room upserts at any readings of the store clock.
NextSeen ==
    \/ \E u \in UserIds, now \in Times : UpsertUser(Participant(u), now)
    \/ \E r \in RoomIds, now \in Times : UpsertRoom(DriverRoom(r), now)

SpecSeen == Init /\ [][NextSeen]_vars

\* the participants arrays of at most one user of U, with the follower
\* counter absent (0) or at its largest
CountedLists(U) ==
    {<<>>} \cup {<<[Participant(u) EXCEPT !.followers_count = c]>> : u \in U, c \in {0, MaxCount}}

\* Reconciliation of one room with the observed counters varying, the
\* tracker's clock and the store's showing the same time.
NextPresent ==
    \/ \E r \in ReconcileRooms, now \in StoreEpoch : UpsertRoom(DriverRoom(r), now)
    \/ \E r \in ReconcileRooms, ps \in CountedLists(FrameUsers), t \in Times :
        LET now == [date |-> t, store |-> t] IN
        ProcessRoomCall(r, ps, now, NoFault, <<ps, now>>)

SpecPresent == Init /\ [][NextPresent]_vars

\* the entries a raw payload may hold: rooms with a missing topic or one of
\* two, and a malformed entry
RawEntries ==
    {[id |-> r, topic |-> t, malformed |-> FALSE] : r \in FrameRooms, t \in {"", "chat", "news"}}
        \cup {[id |-> "", topic |-> "", malformed |-> TRUE]}

\* The parser applied to every raw payload.
NextParse == \E entries \in SeqsUpTo(RawEntries, MaxPayload) : ParseSnapshot(entries)

SpecParse == Init /\ [][NextParse]_vars

\* a room element as the scroll loop of index.js parses it: its id and the
\* one user in its occupied slot
VisibleRooms ==
    {[room_id |-> r, participants |-> <<Participant(u)>>] : r \in FrameRooms, u \in FrameUsers}

\* one step of a cycle of the scrolling driver
ScrollStep ==
    \/ \E roomsHtml \in SeqsUpTo(VisibleRooms, MaxVisible), fails \in BOOLEAN :
        ScrollFetch(roomsHtml, fails)
    \/ \E now \in Clocks(StoreEpoch, StoreEpoch) : ScrollProcess(now)
    \/ \E fails \in BOOLEAN : ScrollAdvance(fails)
    \/ \E fails \in BOOLEAN : ScrollFinish(fails)

\* The scrolling driver of index.js: cycle after cycle it scrolls the page
\* and processes the new rooms of every scroll position at once.
NextScroll ==
    \/ \E fails \in BOOLEAN : ScrollCycleStart(fails)
    \/ ScrollStep

SpecScroll == Init /\ [][NextScroll]_vars

\* the same with every awaited operation of a cycle returning or failing in
\* the end
SpecScrollLive == SpecScroll /\ WF_vars(ScrollStep)

\* supporter tiers an observation may carry: missing, negative, the ends of
\* the documented range and one above it
ObservedTiers == {NULL, -1, 0, 10, 11}

\* Profile upserts of the users with every supporter tier.
NextTier ==
    \E u \in UserIds, t \in ObservedTiers, now \in StoreEpoch :
        UpsertUser([Participant(u) EXCEPT !.supporter_level = t], now)

SpecTier == Init /\ [][NextTier]_vars

\* Reconciliation of rooms together with inactivity sweeps.
NextSweep ==
    \/ \E r \in FrameRooms, now \in StoreEpoch : UpsertRoom(DriverRoom(r), now)
    \/ \E r \in FrameRooms, ps \in ParticipantLists(FrameUsers), now \in Clocks(Times, StoreEpoch) :
        ProcessRoom(r, ps, now, NoFault)
    \/ \E ids \in SeqsUpTo(FrameRooms, MaxSweep) : MarkInactiveRooms(ids)

SpecSweep == Init /\ [][NextSweep]_vars

\* Reconciliation of one room while the upsertUser query of one participant
\* fails with a store error.
NextFault ==
    \/ \E r \in ReconcileRooms, now \in StoreEpoch : UpsertRoom(DriverRoom(r), now)
    \/ \E r \in ReconcileRooms, ps \in ParticipantLists(UserIds), now \in Clocks(Times, StoreEpoch) :
        \E k \in 0..Len(ps) : ProcessRoom(r, ps, now, [NoFault EXCEPT !.user = k])

SpecFault == Init /\ [][NextFault]_vars

\* ------------------------------- the interception driver (startScraper)

\* the executions of the response handler the model follows
HandlerIds == {"h1", "h2"}

\* a handler execution that has not been started
NoHandler == [pc |-> "none", entries |-> <<>>, rooms |-> <<>>, k |-> 1]

\* startScraper: the browser is launched, page.on('response', ...) is
\* registered and page.goto has returned, or one of them has thrown and the
\* loop restarts after its delay
StartScraper(fails) ==
    /\ driver.phase = "idle"
    /\ driver' = IF fails THEN IdleDriver
                 ELSE [phase |-> "intercepting", handlers |-> [h \in HandlerIds |-> NoHandler]]
    /\ last' = [NoCall EXCEPT !.op = "startScraper", !.status = IF fails THEN "error" ELSE "ok"]
    /\ UNCHANGED <<users, rooms, sessions, activeSessions>>

\* page.on('response'): a 200 response of the rooms URL arrives; the event
\* emitter calls the async handler, which runs up to await response.json()
\* and is not awaited by anyone
Response(h, entries) ==
    /\ driver.phase = "intercepting"
    /\ driver.handlers[h].pc = "none"
    /\ driver' = [driver EXCEPT !.handlers[h] = [NoHandler EXCEPT !.pc = "json", !.entries = entries]]
    /\ last' = [NoCall EXCEPT !.op = "response"]
    /\ UNCHANGED <<users, rooms, sessions, activeSessions>>

\* handler: response.json() resolves or rejects; parseSnapshot; the
\* for..of loop reaches its first await, db.upsertRoom(room)
HandlerParse(h, fails) ==
    /\ driver.phase = "intercepting"
    /\ driver.handlers[h].pc = "json"
    /\ LET parsed == parseSnapshot(driver.handlers[h].entries).rooms
       IN  driver' = [driver EXCEPT
                        !.handlers[h].rooms = IF fails THEN <<>> ELSE parsed,
                        !.handlers[h].pc = IF fails \/ parsed = <<>> THEN "done" ELSE "upsertRoom"]
    /\ last' = [NoCall EXCEPT !.op = "parseSnapshot", !.status = IF fails THEN "error" ELSE "ok"]
    /\ UNCHANGED <<users, rooms, sessions, activeSessions>>

\* handler: the store executes the db.upsertRoom query of room k, or rejects
\* it (the handler's catch ends the loop); room.current_users_count is
\* undefined, so 0 is written
HandlerUpsertRoom(h, now, fails) ==
    /\ driver.phase = "intercepting"
    /\ driver.handlers[h].pc = "upsertRoom"
    /\ LET room == driver.handlers[h].rooms[driver.handlers[h].k]
       IN  /\ rooms' = IF fails THEN rooms
                       ELSE upsertRoom(rooms, [room_id |-> room.room_id,
                                               is_active |-> room.is_active,
                                               current_users_count |-> 0], now)
           /\ last' = [NoCall EXCEPT !.op = "upsertRoom",
                                     !.room_id = room.room_id,
                                     !.time = now,
                                     !.status = IF fails THEN "error" ELSE "ok"]
    /\ driver' = [driver EXCEPT !.handlers[h].pc = IF fails THEN "done" ELSE "sync"]
    /\ UNCHANGED <<users, sessions, activeSessions>>

\* handler: await db.upsertRoom has resolved and db.syncRoomSessions(...) is
\* called; db.js exports no syncRoomSessions, so the call raises a TypeError
\* and the handler's catch ends the loop
HandlerSync(h) ==
    /\ driver.phase = "intercepting"
    /\ driver.handlers[h].pc = "sync"
    /\ driver' = [driver EXCEPT !.handlers[h].pc = "done"]
    /\ last' = [NoCall EXCEPT !.op = "syncRoomSessions",
                              !.room_id = driver.handlers[h].rooms[driver.handlers[h].k].room_id,
                              !.status = "error"]
    /\ UNCHANGED <<users, rooms, sessions, activeSessions>>

\* the handler has returned; its slot follows the next response
HandlerReturn(h) ==
    /\ driver.phase = "intercepting"
    /\ driver.handlers[h].pc = "done"
    /\ driver' = [driver EXCEPT !.handlers[h] = NoHandler]
    /\ last' = [NoCall EXCEPT !.op = "handlerReturn"]
    /\ UNCHANGED <<users, rooms, sessions, activeSessions>>

\* the payloads intercepted: keyed mappings of up to MaxPayload rooms
InterceptedEntries ==
    {[id |-> r, topic |-> "chat", malformed |-> FALSE] : r \in FrameRooms}

\* The interception driver: responses arrive at any time.
NextIntercept ==
    \/ \E fails \in BOOLEAN : StartScraper(fails)
    \/ \E h \in HandlerIds, entries \in SeqsUpTo(InterceptedEntries, MaxPayload) : Response(h, entries)
    \/ \E h \in HandlerIds, fails \in BOOLEAN : HandlerParse(h, fails)
    \/ \E h \in HandlerIds, now \in StoreEpoch, fails \in BOOLEAN : HandlerUpsertRoom(h, now, fails)
    \/ \E h \in HandlerIds : HandlerSync(h)
    \/ \E h \in HandlerIds : HandlerReturn(h)

SpecIntercept == Init /\ [][NextIntercept]_vars

\* ------------------------------------------------ saveToDatabase (cron app)

\* In this program the store has the tables groups and users; the model
\* keeps the committed rows of groups in rooms and those of users in users.

\* INSERT INTO groups ... ON CONFLICT (group_id) DO UPDATE, on a table gs
saveGroup(gs, group, now) ==
    LET row == [topic |-> group.topic, client_count |-> Len(group.clients), scraped_at |-> now]
    IN  [g \in DOMAIN gs \cup {group.groupId} |-> IF g = group.groupId THEN row ELSE gs[g]]

\* INSERT INTO users ... ON CONFLICT (user_id) DO UPDATE, on a table us
saveUser(us, client, now) ==
    LET row == [username |-> client.username, followers |-> client.followers, scraped_at |-> now]
    IN  [u \in DOMAIN us \cup {client.id} |-> IF u = client.id THEN row ELSE us[u]]

\* saveToDatabase(groups): pool.connect() and BEGIN on the connection client.
\* g, c: the group and the client whose query comes next (c = 0: the group's
\* own INSERT); tx: the groups table as the open transaction of client sees
\* it; groupsBefore, usersBefore: the committed tables when the call began.
SaveBegin(groups) ==
    /\ driver.phase = "idle"
    /\ driver' = [phase |-> "saving", groups |-> groups, g |-> 1, c |-> 0, tx |-> rooms,
                  groupsBefore |-> rooms, usersBefore |-> users]
    /\ last' = [NoCall EXCEPT !.op = "begin"]
    /\ UNCHANGED <<users, rooms, sessions, activeSessions>>

\* the catch block: ROLLBACK on client, which discards the writes made
\* through client, then the rethrow and client.release()
SaveRollback ==
    /\ driver' = IdleDriver
    /\ last' = [NoCall EXCEPT !.op = "saveToDatabase", !.status = "error"]

\* "Save group": client.query(INSERT INTO groups ...), inside the transaction
SaveGroup(now, fails) ==
    /\ driver.phase = "saving"
    /\ driver.g <= Len(driver.groups)
    /\ driver.c = 0
    /\ IF fails
       THEN SaveRollback
       ELSE LET group == driver.groups[driver.g]
            IN  /\ driver' = [driver EXCEPT
                                !.tx = saveGroup(@, group, now),
                                !.g = IF Len(group.clients) = 0 THEN @ + 1 ELSE @,
                                !.c = IF Len(group.clients) = 0 THEN 0 ELSE 1]
                /\ last' = [NoCall EXCEPT !.op = "saveGroup", !.room_id = group.groupId]
    /\ UNCHANGED <<users, rooms, sessions, activeSessions>>

\* "Save users": pool.query(INSERT INTO users ...), which runs on another
\* connection of the pool, outside the transaction of client, and is
\* committed at once
SaveUser(now, fails) ==
    /\ driver.phase = "saving"
    /\ driver.g <= Len(driver.groups)
    /\ driver.c > 0
    /\ IF fails
       THEN SaveRollback /\ UNCHANGED users
       ELSE LET group == driver.groups[driver.g]
                client == group.clients[driver.c]
            IN  /\ users' = saveUser(users, client, now)
                /\ driver' = [driver EXCEPT
                                !.g = IF driver.c = Len(group.clients) THEN @ + 1 ELSE @,
                                !.c = IF driver.c = Len(group.clients) THEN 0 ELSE @ + 1]
                /\ last' = [NoCall EXCEPT !.op = "saveUser", !.user_id = client.id]
    /\ UNCHANGED <<rooms, sessions, activeSessions>>

\* client.query('COMMIT') after the last group
SaveCommit(fails) ==
    /\ driver.phase = "saving"
    /\ driver.g > Len(driver.groups)
    /\ IF fails
       THEN SaveRollback /\ UNCHANGED rooms
       ELSE /\ rooms' = driver.tx
            /\ driver' = IdleDriver
            /\ last' = [NoCall EXCEPT !.op = "saveToDatabase", !.status = "ok"]
    /\ UNCHANGED <<users, sessions, activeSessions>>

\* the groups scraper.parseGroups returns
ScrapedGroups ==
    {[groupId |-> r, topic |-> "chat", clients |-> cs] :
        r \in FrameRooms,
        cs \in SeqsUpTo({[id |-> u, username |-> u, followers |-> 0] : u \in UserIds}, 1)}

\* saveToDatabase called by every run of the scraper, any of its queries
\* failing or not.
NextSave ==
    \/ \E groups \in SeqsUpTo(ScrapedGroups, MaxGroups) : SaveBegin(groups)
    \/ \E now \in StoreEpoch, fails \in BOOLEAN : SaveGroup(now, fails)
    \/ \E now \in StoreEpoch, fails \in BOOLEAN : SaveUser(now, fails)
    \/ \E fails \in BOOLEAN : SaveCommit(fails)

SpecSave == Init /\ [][NextSave]_vars

\* ------------------------------------------- skill levels of scraped rooms

\* A skill-level text of the page: its words in lower case, whether the page
\* wrote them with capitals, and whether white space surrounds them.
SkillWords == {"beginner", "intermediate", "advanced", "upper", "any", "all", "level", "levels"}

RawSkillLevels ==
    {[words |-> w, caps |-> c, pad |-> p] :
        w \in [1..1 -> SkillWords] \cup [1..2 -> SkillWords], c \in BOOLEAN, p \in BOOLEAN}

\* String.prototype.toLowerCase
toLowerCase(text) == [text EXCEPT !.caps = FALSE]

\* String.prototype.trim
trim(text) == [text EXCEPT !.pad = FALSE]

\* const skillLevelMap = { ... }: its keys are lower-case, unpadded texts
skillLevelMap ==
    (<<"beginner">> :> "Beginner") @@
    (<<"intermediate">> :> "Intermediate") @@
    (<<"upper", "intermediate">> :> "Advanced") @@
    (<<"advanced">> :> "Advanced") @@
    (<<"upper", "advanced">> :> "Upper Advanced") @@
    (<<"any", "level">> :> "Any Level") @@
    (<<"all", "levels">> :> "Any Level")

\* skillLevelMap[roomData.skill_level.toLowerCase().trim()] || 'Any Level'
SkillLevel(raw) ==
    LET key == trim(toLowerCase(raw))
    IN  IF ~key.caps /\ ~key.pad /\ key.words \in DOMAIN skillLevelMap
        THEN skillLevelMap[key.words]
        ELSE "Any Level"

\* rooms.skill_level CHECK (skill_level IN (...))
skill_level_check(skill_level) ==
    skill_level \in {"Beginner", "Intermediate", "Advanced", "Any Level"}

\* processRoomsData, for one scraped room: the skill level is normalized and
\* db.upsertRoom is awaited; the store rejects a row that violates the CHECK
\* and the room's catch logs the error
UpsertScrapedRoom(r, raw, now) ==
    /\ LET skill_level == SkillLevel(raw)
       IN  /\ rooms' = IF skill_level_check(skill_level)
                       THEN upsertRoom(rooms, DriverRoom(r), now)
                       ELSE rooms
           /\ last' = [NoCall EXCEPT !.op = "upsertScrapedRoom",
                                     !.room_id = r,
                                     !.time = now,
                                     !.observed = raw,
                                     !.result = <<skill_level>>,
                                     !.status = IF skill_level_check(skill_level)
                                                THEN "ok" ELSE "error"]
    /\ UNCHANGED <<users, sessions, activeSessions, driver>>

\* Every skill-level text, written to one room.
NextSkill ==
    \E r \in ReconcileRooms, raw \in RawSkillLevels, now \in StoreEpoch : UpsertScrapedRoom(r, raw, now)

SpecSkill == Init /\ [][NextSkill]_vars

\* ------------------- db.upsertUser called from the callbacks of one batch

\* the executions of db.upsertUser the model follows: one per batch callback
UpsertCalls == {"c1", "c2"}

\* an execution that has not been started. oldRows is the result of its
\* SELECT, before the rows of the user the store held when its INSERT ran,
\* written the row its INSERT returned, log the entries it appended.
NoUpsert == [pc |-> "none", userData |-> <<>>, oldRows |-> <<>>, before |-> <<>>,
             written |-> <<>>, log |-> <<>>]

\* Promise.all(batch.map(...)): the callbacks of a batch run concurrently,
\* each inside tracker.processRoom
EnterBatch ==
    /\ driver.phase = "idle"
    /\ driver' = [phase |-> "upserting", calls |-> [c \in UpsertCalls |-> NoUpsert]]
    /\ last' = [NoCall EXCEPT !.op = "batch"]
    /\ UNCHANGED <<users, rooms, sessions, activeSessions>>

\* processRoom calls db.upsertUser(userData), which runs up to the await of
\* its SELECT
UpsertUserBegin(c, userData) ==
    /\ driver.phase = "upserting"
    /\ driver.calls[c].pc = "none"
    /\ driver' = [driver EXCEPT !.calls[c] = [NoUpsert EXCEPT !.pc = "select", !.userData = userData]]
    /\ last' = [NoCall EXCEPT !.op = "upsertUser", !.user_id = userData.user_id]
    /\ UNCHANGED <<users, rooms, sessions, activeSessions>>

\* the store executes SELECT * FROM users WHERE user_id = $1
UpsertUserSelect(c) ==
    /\ driver.phase = "upserting"
    /\ driver.calls[c].pc = "select"
    /\ driver' = [driver EXCEPT
                    !.calls[c].pc = "insert",
                    !.calls[c].oldRows = OldUser(users, driver.calls[c].userData.user_id)]
    /\ last' = [NoCall EXCEPT !.op = "select", !.user_id = driver.calls[c].userData.user_id]
    /\ UNCHANGED <<users, rooms, sessions, activeSessions>>

\* the store executes the INSERT ... ON CONFLICT, and the call logs the
\* profile changes between the row it selected and the row returned
UpsertUserInsert(c, now) ==
    /\ driver.phase = "upserting"
    /\ driver.calls[c].pc = "insert"
    /\ LET userData == driver.calls[c].userData
           written == upsertUser(users, userData, now)[userData.user_id]
       IN  /\ users' = upsertUser(users, userData, now)
           /\ driver' = [driver EXCEPT
                           !.calls[c].pc = "done",
                           !.calls[c].before = OldUser(users, userData.user_id),
                           !.calls[c].written = <<written>>,
                           !.calls[c].log = ProfileLog(driver.calls[c].oldRows, written)]
           /\ last' = [NoCall EXCEPT !.op = "insert", !.user_id = userData.user_id, !.time = now]
    /\ UNCHANGED <<rooms, sessions, activeSessions>>

\* db.upsertUser returns newUser
UpsertUserReturn(c) ==
    /\ driver.phase = "upserting"
    /\ driver.calls[c].pc = "done"
    /\ driver' = [driver EXCEPT !.calls[c] = NoUpsert]
    /\ last' = [NoCall EXCEPT !.op = "return"]
    /\ UNCHANGED <<users, rooms, sessions, activeSessions>>

\* Two callbacks of a parallel batch upserting the same user, observed with
\* any follower count.
NextUpsert ==
    \/ EnterBatch
    \/ \E c \in UpsertCalls, u \in FrameUsers, a \in Counts :
        UpsertUserBegin(c, [Participant(u) EXCEPT !.followers_count = a])
    \/ \E c \in UpsertCalls : UpsertUserSelect(c)
    \/ \E c \in UpsertCalls, now \in StoreEpoch : UpsertUserInsert(c, now)
    \/ \E c \in UpsertCalls : UpsertUserReturn(c)

SpecUpsert == Init /\ [][NextUpsert]_vars

\* The tracker from process start on: reconciliation of one room while the
\* store accepts or rejects the INSERTs into user_activity_log.
NextMirror ==
    \/ \E r \in ReconcileRooms, now \in StoreEpoch : UpsertRoom(DriverRoom(r), now)
    \/ Initialize
    \/ \E r \in ReconcileRooms, ps \in ParticipantLists(UserIds), now \in Clocks(Times, StoreEpoch) :
        \E a \in BOOLEAN : ProcessRoom(r, ps, now, [NoFault EXCEPT !.activity = a])

SpecMirror == Init /\ [][NextMirror]_vars

\* db.createSession called on a store with users and a room, while the store
\* accepts or rejects the INSERT into user_activity_log.
NextJoin ==
    \/ \E r \in ReconcileRooms, now \in StoreEpoch : UpsertRoom(DriverRoom(r), now)
    \/ \E u \in UserIds, now \in StoreEpoch : UpsertUser(Participant(u), now)
    \/ \E u \in UserIds, r \in ReconcileRooms, t \in Times, logFails \in BOOLEAN :
        CreateSessionCall([user_id |-> u, room_id |-> r, joined_at |-> t], logFails)

SpecJoin == Init /\ [][NextJoin]_vars

\* db.endAllSessionsInRoom called on sessions of several users and rooms, at
\* one clock reading, while the store accepts or rejects the INSERT into
\* user_activity_log.
NextLeave ==
    \/ \E u \in UserIds, now \in StoreEpoch : UpsertUser(Participant(u), now)
    \/ \E r \in FrameRooms, now \in StoreEpoch : UpsertRoom(DriverRoom(r), now)
    \/ \E u \in UserIds, r \in FrameRooms, t \in StoreEpoch :
        CreateSession([user_id |-> u, room_id |-> r, joined_at |-> t])
    \/ \E u \in UserIds, r \in FrameRooms, t \in StoreEpoch, logFails \in BOOLEAN :
        EndAllSessionsInRoomCall(r, u, t, logFails)

SpecLeave == Init /\ [][NextLeave]_vars

\* Reconciliation of one room, at one clock reading, while the room_analytics
\* query fails or succeeds.
NextAnalytics ==
    \/ \E r \in ReconcileRooms, now \in StoreEpoch : UpsertRoom(DriverRoom(r), now)
    \/ \E r \in ReconcileRooms, ps \in ParticipantLists(UserIds),
          now \in Clocks(StoreEpoch, StoreEpoch), a \in BOOLEAN :
        ProcessRoom(r, ps, now, [NoFault EXCEPT !.analytics = a])

SpecAnalytics == Init /\ [][NextAnalytics]_vars

\* a room element of the page as phase 1 parses it: its id and the users in
\* its occupied slots (the one user in any room, or nobody in the first room)
ScrapedRooms ==
    {[room_id |-> r, participants |-> <<Participant(u)>>] : r \in RoomIds, u \in FrameUsers}
        \cup {[room_id |-> r, participants |-> <<>>] : r \in ReconcileRooms}

\* The polling driver: cycle after cycle it collects the rooms shown, then
\* upserts and reconciles them batch by batch, the rooms of a batch in
\* parallel.
NextPoll ==
    \/ \E roomsHtml \in SeqsUpTo(ScrapedRooms, MaxScraped) : StartCycle(roomsHtml)
    \/ \E k \in DOMAIN driver.tasks, now \in StoreEpoch, fails \in BOOLEAN :
        TaskUpsertRoom(k, now, fails)
    \/ \E k \in DOMAIN driver.tasks : TaskRead(k)
    \/ \E k \in DOMAIN driver.tasks, now \in Clocks(StoreEpoch, StoreEpoch) :
        TaskReconcile(k, now)
    \/ NextBatch
    \/ EndCycle

SpecPoll == Init /\ [][NextPoll]_vars

\* ---------------------------------------------------------------- claims

\* session rows of (user, room) with left_at NULL
OpenRows(ss, u, r) ==
    {i \in DOMAIN ss : ss[i].user_id = u /\ ss[i].room_id = r /\ ss[i].left_at = NULL}

\* session rows of a room with left_at NULL
OpenRowsIn(ss, r) == {i \in DOMAIN ss : ss[i].room_id = r /\ ss[i].left_at = NULL}

\* users holding an open session in a room
OpenUsers(ss, r) == {ss[i].user_id : i \in OpenRowsIn(ss, r)}

\* C1: for every (user_id, room_id) the store holds at most one session row
\* with left_at NULL, after any sequence of processRoom calls.
C1_AtMostOneOpen ==
    \A u \in UserIds, r \in RoomIds : Cardinality(OpenRows(sessions, u, r)) <= 1

\* C2: a processRoom call that returns reports joined = |P \ O| and
\* left = |O \ P|, O the users with an open session in the room when the call
\* starts and P the observed participants.
C2_Counts ==
    [][(last'.op = "processRoom" /\ last'.status = "ok") =>
        LET O == OpenUsers(sessions, last'.room_id)
            P == last'.ids
        IN  /\ last'.joined = Cardinality(P \ O)
            /\ last'.left = Cardinality(O \ P)]_vars

\* C3: after processRoom(R, P) has returned without error, the users holding
\* an open session in R are exactly P.
C3_StoreMatchesObserved ==
    (last.op = "processRoom" /\ last.status = "ok") =>
        OpenUsers(sessions, last.room_id) = last.ids

\* C3 witness: a call that returned after opening one session and closing
\* another, so the store did not match the observation before it.
C3_Witness ==
    /\ last.op = "processRoom" /\ last.status = "ok"
    /\ last.joined >= 1 /\ last.left >= 1
    /\ last.ids # {}
    /\ OpenUsers(sessions, last.room_id) = last.ids

\* C4: processRoom with an empty participant list closes every session open
\* in the room and opens none; left is the number of sessions that were
\* open, and each is closed with a non-negative duration.
C4_EmptyClosesAll ==
    [][(last'.op = "processRoom" /\ last'.ids = {}) =>
        LET open == OpenRowsIn(sessions, last'.room_id)
        IN  /\ last'.status = "ok"
            /\ last'.joined = 0
            /\ last'.left = Cardinality(open)
            /\ Len(sessions') = Len(sessions)
            /\ \A i \in open : /\ sessions'[i].left_at # NULL
                                /\ sessions'[i].duration_seconds >= 0]_vars

\* C5: a close whose leave time is earlier than the session's joined_at is
\* not rejected: the session is closed with left_at = joined_at and a stored
\* duration of 0.
C5_ClampedClose ==
    [][last'.op = "endAllSessionsInRoom" =>
        \A i \in DOMAIN sessions :
            (EndWhere(sessions[i], last'.room_id, last'.user_id)
             /\ last'.time < sessions[i].joined_at) =>
                /\ last'.status = "ok"
                /\ sessions'[i].left_at = sessions[i].joined_at
                /\ sessions'[i].duration_seconds = 0]_vars

\* C6: every closed session in the store has left_at >= joined_at and
\* duration_seconds >= 0, whatever leave times the closes were given.
C6_ClosedSessionTimes ==
    \A i \in DOMAIN sessions :
        sessions[i].left_at # NULL =>
            /\ sessions[i].left_at >= sessions[i].joined_at
            /\ sessions[i].duration_seconds >= 0

\* C6 witness: a session was closed with a positive duration and the last
\* close, given a leave time before another session's joined_at, was refused.
C6_Witness ==
    /\ last.op = "endAllSessionsInRoom" /\ last.status = "error"
    /\ \E i \in DOMAIN sessions :
          sessions[i].left_at # NULL /\ sessions[i].duration_seconds > 0
    /\ \E i \in DOMAIN sessions :
          /\ EndWhere(sessions[i], last.room_id, last.user_id)
          /\ last.time < sessions[i].joined_at

\* C7: for each of the three counters, an observed 0 against a positive
\* stored value leaves the stored value in place, observation after
\* observation.
C7_ZeroKeepsStored ==
    [][(last'.op = "upsertUser" /\ last'.user_id \in DOMAIN users) =>
        LET old == users[last'.user_id]
            new == users'[last'.user_id]
        IN  /\ (old.followers_count > 0 /\ last'.counts[1] = 0) =>
                    new.followers_count = old.followers_count
            /\ (old.following_count > 0 /\ last'.counts[2] = 0) =>
                    new.following_count = old.following_count
            /\ (old.friends_count > 0 /\ last'.counts[3] = 0) =>
                    new.friends_count = old.friends_count]_vars

\* C8: processRoom(B) changes no session row of another room, and every row
\* it adds has room_id B.
C8_OtherRoomsUntouched ==
    [][last'.op = "processRoom" =>
        /\ Len(sessions') >= Len(sessions)
        /\ \A i \in DOMAIN sessions :
              sessions[i].room_id # last'.room_id => sessions'[i] = sessions[i]
        /\ \A i \in DOMAIN sessions' \ DOMAIN sessions :
              sessions'[i].room_id = last'.room_id]_vars

\* C8 witness: a user holding an open session in one room has just been
\* reconciled into another room and holds an open session in both.
C8_Witness ==
    /\ last.op = "processRoom" /\ last.status = "ok" /\ last.joined = 1
    /\ \E u \in last.ids, r \in RoomIds :
          /\ r # last.room_id
          /\ OpenRows(sessions, u, r) # {}
          /\ OpenRows(sessions, u, last.room_id) # {}

\* C9: markInactiveRooms with an empty id list changes no room.
C9_EmptySweepKeepsRooms ==
    [][(last'.op = "markInactiveRooms" /\ last'.ids = {}) => rooms' = rooms]_vars

\* C9 witness: an empty sweep has just run on a store with an active room.
C9_Witness ==
    /\ last.op = "markInactiveRooms" /\ last.ids = {}
    /\ \E r \in DOMAIN rooms : rooms[r].is_active

\* C10: markInactiveRooms with a non-empty id list sets is_active = false on
\* exactly the rooms that were active and are not in the list, and changes
\* nothing else.
C10_SweepDeactivatesUnlisted ==
    [][(last'.op = "markInactiveRooms" /\ last'.ids # {}) =>
        /\ DOMAIN rooms' = DOMAIN rooms
        /\ \A r \in DOMAIN rooms :
              IF rooms[r].is_active /\ r \notin last'.ids
              THEN rooms'[r] = [rooms[r] EXCEPT !.is_active = FALSE]
              ELSE rooms'[r] = rooms[r]]_vars

\* C10 witness: a sweep has just deactivated a room, left a listed room
\* active and met a room that was already inactive.
C10_Witness ==
    /\ last.op = "markInactiveRooms" /\ last.ids # {} /\ last.rows = 1
    /\ \E r \in DOMAIN rooms : r \in last.ids /\ rooms[r].is_active
    /\ Cardinality({r \in DOMAIN rooms : r \notin last.ids /\ ~rooms[r].is_active}) = 2

\* the fields of a user record a profile observation carries
ProfileFields ==
    {"followers_count", "following_count", "friends_count",
     "username", "user_avatar", "verification_status"}

\* C17: an upsert of a user that has a stored record appends exactly one
\* profile_update entry listing each changed field when a counter, the display
\* name, the avatar or the verification flag differs from the stored value,
\* and appends none when no field changed.
C17_OneEntryPerChangedUpsert ==
    [][(last'.op = "upsertUser" /\ last'.user_id \in DOMAIN users) =>
        LET old == users[last'.user_id]
            new == users'[last'.user_id]
            changed == {f \in ProfileFields : old[f] # new[f]}
        IN  IF changed = {}
            THEN last'.log = <<>>
            ELSE /\ Len(last'.log) = 1
                 /\ last'.log[1].activity_type = "profile_update"
                 /\ {f \in DOMAIN last'.log[1].activity_data :
                        last'.log[1].activity_data[f] # <<>>} = changed]_vars

\* C18: an observed counter of 0 against a positive stored counter is not a
\* change: the upsert appends no profile_update entry for that counter.
C18_SuppressedZeroNotLogged ==
    [][(last'.op = "upsertUser" /\ last'.user_id \in DOMAIN users) =>
        LET old == users[last'.user_id]
            log == last'.log
        IN  /\ (old.followers_count > 0 /\ last'.counts[1] = 0) =>
                    \A i \in DOMAIN log : log[i].activity_data.followers_count = <<>>
            /\ (old.following_count > 0 /\ last'.counts[2] = 0) =>
                    \A i \in DOMAIN log : log[i].activity_data.following_count = <<>>
            /\ (old.friends_count > 0 /\ last'.counts[3] = 0) =>
                    \A i \in DOMAIN log : log[i].activity_data.friends_count = <<>>]_vars

\* C19: the first observation of a user that has no stored record writes no
\* profile_update entry.
C19_FirstObservationNotLogged ==
    [][(last'.op = "upsertUser" /\ last'.user_id \notin DOMAIN users) =>
        last'.log = <<>>]_vars

\* C19 witness: an upsert that read no stored record has just inserted a user
\* with a display name and positive counters, and appended nothing.
C19_Witness ==
    /\ last.op = "upsertUser" /\ last.rows = 0
    /\ last.user_id \in DOMAIN users
    /\ users[last.user_id].username # ""
    /\ users[last.user_id].followers_count > 0
    /\ last.log = <<>>

\* C20: first_seen of a user row and of a room row is set when the row is
\* inserted and no later upsertUser or upsertRoom changes it.
C20_FirstSeenKept ==
    [][/\ \A u \in DOMAIN users :
            u \in DOMAIN users' /\ users'[u].first_seen = users[u].first_seen
       /\ \A r \in DOMAIN rooms :
            r \in DOMAIN rooms' /\ rooms'[r].first_seen = rooms[r].first_seen
       /\ \A u \in DOMAIN users' \ DOMAIN users : users'[u].first_seen = last'.time
       /\ \A r \in DOMAIN rooms' \ DOMAIN rooms : rooms'[r].first_seen = last'.time]_vars

\* C20 witness: a room has just been upserted at a store time later than its
\* first_seen, and users first seen at different store times are stored.
C20_Witness ==
    /\ last.op = "upsertRoom"
    /\ rooms[last.room_id].first_seen < last.time
    /\ \E u \in DOMAIN users : users[u].first_seen < MaxTime
    /\ \E u \in DOMAIN users : users[u].first_seen = MaxTime

\* C11: deactivation cascades session closure: once markInactiveRooms has
\* deactivated a room, no session of that room is still open.
C11_DeactivationClosesSessions ==
    [][last'.op = "markInactiveRooms" =>
        \A r \in DOMAIN rooms :
            (rooms[r].is_active /\ ~rooms'[r].is_active) => OpenRowsIn(sessions', r) = {}]_vars

\* C14: when persisting one participant's user record fails during
\* processRoom, the remaining participants are still processed: the other
\* observed users hold an open session afterwards and the absent users hold
\* none.
C14_FailureIsolatedPerUser ==
    [][(last'.op = "processRoom" /\ last'.fault.user > 0 /\ last'.room_id \in DOMAIN rooms) =>
        /\ \A u \in last'.ids \ {last'.user_id} :
              OpenRows(sessions', u, last'.room_id) # {}
        /\ \A u \in OpenUsers(sessions, last'.room_id) \ last'.ids :
              OpenRows(sessions', u, last'.room_id) = {}]_vars

\* C16: a failure of updateRoomAnalytics does not fail processRoom: the call
\* returns its joined and left counts and the sessions it opened and closed
\* stay in the store.
C16_AnalyticsFailureNotFatal ==
    [][(last'.op = "processRoom" /\ last'.fault.analytics /\ last'.room_id \in DOMAIN rooms) =>
        /\ last'.status = "ok"
        /\ last'.joined = Len(sessions') - Len(sessions)
        /\ last'.left = Cardinality(OpenUsers(sessions, last'.room_id)
                                        \ OpenUsers(sessions', last'.room_id))
        /\ OpenUsers(sessions', last'.room_id) = last'.ids]_vars

\* C16 witness: a call whose analytics query failed has returned after opening
\* one session and closing another.
C16_Witness ==
    /\ last.op = "processRoom" /\ last.fault.analytics
    /\ last.status = "ok" /\ last.joined >= 1 /\ last.left >= 1
    /\ OpenUsers(sessions, last.room_id) = last.ids


\* room ids the cycle in progress collected
ObservedIds(d) == {d.allRoomsData[k].room_id : k \in DOMAIN d.allRoomsData}

\* the step that ends a cycle of the polling driver
CycleEnds == driver.phase = "processing" /\ driver'.phase = "idle"

\* C12: when a cycle that observed some room finishes, every active room
\* that the cycle did not observe is inactive and has no open session.
C12_UnobservedRoomDeactivated ==
    [][(CycleEnds /\ ObservedIds(driver) # {}) =>
        \A r \in DOMAIN rooms \ ObservedIds(driver) :
            rooms[r].is_active =>
                (~rooms'[r].is_active /\ OpenRowsIn(sessions', r) = {})]_vars

\* callbacks of the batch function that are between their start and their
\* return inside tracker.processRoom
InProcessRoom(d) == {k \in DOMAIN d.tasks : d.tasks[k].pc \in {"read", "reconcile"}}

\* C13: in the polling driver no two executions of processRoom for the same
\* room id are in progress at once: a cycle collects each room id once, and
\* between two cycles no callback is running.
C13_RoomSerialized ==
    /\ \A k1, k2 \in InProcessRoom(driver) :
          k1 # k2 => driver.tasks[k1].room_id # driver.tasks[k2].room_id
    /\ \A k1, k2 \in DOMAIN driver.allRoomsData :
          k1 # k2 => driver.allRoomsData[k1].room_id # driver.allRoomsData[k2].room_id
    /\ driver.phase = "idle" => \A k \in DOMAIN driver.tasks : driver.tasks[k].pc = "done"

\* two rooms of one batch are inside processRoom at once, in a cycle that
\* follows one which opened a session
C13_Witness ==
    /\ \E k1, k2 \in InProcessRoom(driver) : k1 # k2
    /\ sessions # <<>>

\* C15: a room whose processing fails does not stop the cycle: when the
\* cycle ends every collected room has been processed to its end, each
\* either successfully or with its own failure, and the step on which a
\* room fails leaves the rows of the other rooms as they were.
C15_RoomFailureIsolated ==
    [][/\ CycleEnds =>
            \A k \in DOMAIN driver.allRoomsData :
                /\ k \in DOMAIN driver.tasks
                /\ driver.tasks[k].pc = "done"
                /\ driver.tasks[k].outcome \in {"ok", "failed"}
                /\ driver.tasks[k].outcome = "ok" =>
                      /\ driver.tasks[k].room_id \in DOMAIN rooms'
                      /\ rooms'[driver.tasks[k].room_id].is_active
       /\ \A k \in DOMAIN driver.tasks \cap DOMAIN driver'.tasks :
            (driver.tasks[k].pc # "done" /\ driver'.tasks[k].outcome = "failed") =>
                /\ \A r \in DOMAIN rooms \ {driver.tasks[k].room_id} :
                      r \in DOMAIN rooms' /\ rooms'[r] = rooms[r]
                /\ \A i \in DOMAIN sessions :
                      sessions[i].room_id # driver.tasks[k].room_id =>
                          (i \in DOMAIN sessions' /\ sessions'[i] = sessions[i])]_vars

\* a cycle of three rooms is about to end: the first room failed in the
\* first batch and the room of the second batch was processed with success
C15_Witness ==
    /\ driver.phase = "processing"
    /\ Len(driver.allRoomsData) > BatchSize
    /\ \A k \in DOMAIN driver.allRoomsData :
          k \in DOMAIN driver.tasks /\ driver.tasks[k].pc = "done"
    /\ driver.tasks[1].outcome = "failed"
    /\ driver.tasks[Len(driver.allRoomsData)].outcome = "ok"
    /\ OpenRowsIn(sessions, driver.tasks[Len(driver.allRoomsData)].room_id) # {}


\* C21: after any upsertUser the stored supporter_level of the user lies in
\* 0..10, and an observed tier outside that range is stored as 0.
C21_SupporterLevelClamped ==
    [][last'.op = "upsertUser" =>
        LET stored == users'[last'.user_id].supporter_level
        IN  /\ stored \in 0..10
            /\ last'.observed[4] \notin 0..10 => stored = 0]_vars

\* C22: upsertUser of a user already stored keeps the stored display name,
\* avatar and verification flag when the observation carries an empty or
\* missing value for the field.
C22_EmptyIdentityFieldKept ==
    [][(last'.op = "upsertUser" /\ last'.rows > 0) =>
        LET old == users[last'.user_id]
            new == users'[last'.user_id]
        IN  /\ last'.observed[1] = "" => new.username = old.username
            /\ last'.observed[2] = "" => new.user_avatar = old.user_avatar
            /\ last'.observed[3] = "" => new.verification_status = old.verification_status]_vars


\* the last entry of a participants array that names the user
LastEntry(participants, u) ==
    participants[CHOOSE j \in DOMAIN participants :
                    /\ participants[j].user_id = u
                    /\ \A k \in DOMAIN participants : participants[k].user_id = u => k <= j]

\* C23: for an observed user who already holds an open session in the room,
\* processRoom leaves every session row of the pair as it was and adds none,
\* and the user's row takes the observed counter and the store's time as
\* last_seen.
C23_PresentUserUntouched ==
    [][(last'.op = "processRoom" /\ last'.observed # <<>>) =>
        \A u \in last'.ids :
            OpenRows(sessions, u, last'.room_id) # {} =>
                /\ \A i \in DOMAIN sessions :
                      (sessions[i].user_id = u /\ sessions[i].room_id = last'.room_id) =>
                          sessions'[i] = sessions[i]
                /\ \A i \in DOMAIN sessions' \ DOMAIN sessions :
                      ~(sessions'[i].user_id = u /\ sessions'[i].room_id = last'.room_id)
                /\ users'[u].followers_count = LastEntry(last'.observed[1], u).followers_count
                /\ users'[u].last_seen = last'.observed[2].store]_vars

\* a call has just refreshed the counter and last_seen of a user whose open
\* session, joined earlier, is still the only row of the pair
C23_Witness ==
    /\ last.op = "processRoom"
    /\ last.observed # <<>>
    /\ \E u \in last.ids :
          /\ Cardinality(OpenRows(sessions, u, last.room_id)) = 1
          /\ \A i \in OpenRows(sessions, u, last.room_id) :
                sessions[i].joined_at < last.observed[2].date
          /\ users[u].followers_count = MaxCount
          /\ users[u].first_seen < users[u].last_seen


\* C24: a closed session is terminal: a processRoom call leaves every row
\* whose left_at is set exactly as it was, and an observed user without an
\* open session in the room gets a new row when the call succeeds.
C24_ClosedSessionTerminal ==
    [][last'.op = "processRoom" =>
        /\ \A i \in DOMAIN sessions :
              sessions[i].left_at # NULL =>
                  (i \in DOMAIN sessions' /\ sessions'[i] = sessions[i])
        /\ last'.status = "ok" =>
              \A u \in last'.ids :
                  OpenRows(sessions, u, last'.room_id) = {} =>
                      \E i \in DOMAIN sessions' \ DOMAIN sessions :
                          /\ sessions'[i].user_id = u
                          /\ sessions'[i].room_id = last'.room_id
                          /\ sessions'[i].left_at = NULL]_vars

\* a user has re-joined a room: the closed row of the earlier stay is
\* followed by an open row of the same pair
C24_Witness ==
    /\ last.op = "processRoom"
    /\ last.status = "ok"
    /\ last.joined = 1
    /\ \E i, j \in DOMAIN sessions :
          /\ i < j
          /\ sessions[i].user_id = sessions[j].user_id
          /\ sessions[i].room_id = sessions[j].room_id
          /\ sessions[i].left_at # NULL
          /\ sessions[j].left_at = NULL


\* C25: in every reachable state each session row has is_currently_active
\* true exactly when its left_at is NULL.
C25_ActiveFlagMatchesLeftAt ==
    \A i \in DOMAIN sessions : sessions[i].is_currently_active <=> (sessions[i].left_at = NULL)

\* the store holds a session closed by endAllSessionsInRoom and an open one
C25_Witness ==
    /\ last.op = "endAllSessionsInRoom"
    /\ \E i \in DOMAIN sessions : sessions[i].left_at # NULL
    /\ \E i \in DOMAIN sessions : sessions[i].left_at = NULL


\* the well-formed entries of a payload, in iteration order
WellFormed(entries) == SelectSeq(entries, LAMBDA r : ~r.malformed)

\* C26: a malformed entry is skipped alone: parseSnapshot returns the rooms
\* of all well-formed entries of the payload, those after the malformed one
\* included.
C26_MalformedEntrySkipped ==
    [][last'.op = "parseSnapshot" =>
        last'.result = [k \in DOMAIN WellFormed(last'.observed) |->
                           MapRoom(WellFormed(last'.observed)[k])]]_vars

\* C27: the parser's output holds one room per room_id, and it carries the
\* fields of the last entry of the payload with that id.
C27_OneRoomPerId ==
    [][last'.op = "parseSnapshot" =>
        LET out == last'.result
            raw == WellFormed(last'.observed)
        IN  /\ \A i, j \in DOMAIN out : out[i].room_id = out[j].room_id => i = j
            /\ \A i \in DOMAIN out :
                  \A k \in DOMAIN raw :
                      (/\ raw[k].id = out[i].room_id
                       /\ \A m \in DOMAIN raw : raw[m].id = raw[k].id => m <= k)
                          => out[i] = MapRoom(raw[k])]_vars


\* C28: a cycle whose snapshot fetch fails, at navigation or at any scroll
\* step, has written nothing to the store, and the next cycle is scheduled.
C28_FailedFetchMutatesNothing ==
    [][(last'.op = "cycleEnd" /\ last'.status = "fetch_error") =>
        (last'.rows = 0 /\ driver'.phase = "idle")]_vars

\* C29: a cycle that has started is always followed by the scheduling of
\* the next one, whether it completes or an error ends it.
C29_CycleAlwaysRescheduled ==
    [](driver.phase = "scrolling" => <>(driver.phase = "idle"))

\* a cycle that had already processed a room was ended by a fetch error,
\* and the driver is waiting for the next cycle
C29_Witness ==
    /\ last.op = "cycleEnd"
    /\ last.status = "fetch_error"
    /\ last.rows = 1
    /\ driver.phase = "idle"


\* contents the in-memory map may have
MemoryContents == SUBSET (UserIds \X ReconcileRooms)

\* what a processRoom call does to the store and what it returns
Outcome(st) ==
    [users |-> st.users, rooms |-> st.rooms, sessions |-> st.sessions, ok |-> st.ok,
     joined |-> IF st.ok THEN st.joined ELSE 0, left |-> IF st.ok THEN st.left ELSE 0]

\* the outcomes processRoom can have from the current store when the
\* in-memory map holds memory
Outcomes(memory, room_id, participants, now) ==
    {Outcome(processRoom([users |-> users, rooms |-> rooms, sessions |-> sessions,
                          activeSessions |-> memory, joined |-> 0, left |-> 0, ok |-> TRUE],
                         room_id, participants, order, now, NoFault)) :
        order \in Orders({sessions[i].user_id : i \in getRoomParticipants(users, sessions, room_id)})}

\* C30: the in-memory activeSessions map decides nothing: the sessions a
\* processRoom call opens and closes and the counts it returns are those it
\* would have with any other contents of the map.
C30_MemoryNotAuthoritative ==
    [][(last'.op = "processRoom" /\ last'.observed # <<>>) =>
        LET here == Outcomes(activeSessions, last'.room_id, last'.observed[1], last'.observed[2])
        IN  /\ [users |-> users', rooms |-> rooms', sessions |-> sessions',
                ok |-> last'.status = "ok", joined |-> last'.joined, left |-> last'.left] \in here
            /\ \A memory \in MemoryContents \ {activeSessions} :
                  Outcomes(memory, last'.room_id, last'.observed[1], last'.observed[2]) = here]_vars

\* a call has closed the session of a user who left, and the map is empty
\* again
C30_Witness ==
    /\ last.op = "processRoom"
    /\ last.observed # <<>>
    /\ last.status = "ok"
    /\ last.left = 1
    /\ activeSessions = {}
    /\ \E i \in DOMAIN sessions : sessions[i].left_at # NULL


\* C31: after initialize() and after every processRoom call, failed or not,
\* activeSessions holds the pair (user_id, room_id) exactly when the store
\* holds an open session of that pair.
C31_MemoryMirrorsStore ==
    last.op \in {"initialize", "processRoom"} =>
        activeSessions = {<<sessions[i].user_id, sessions[i].room_id>> :
                            i \in {j \in DOMAIN sessions : sessions[j].left_at = NULL}}


\* C37: a createSession call that raises an error leaves no session row of
\* its own in the store.
C37_CreateSessionAllOrNothing ==
    [][(last'.op = "createSession" /\ last'.status = "error") => sessions' = sessions]_vars


\* C38: when endAllSessionsInRoom(room, user) returns, no session of the pair
\* is open, however many were; one room_leave entry was appended if a session
\* was closed and none otherwise; the sessions of other users and of other
\* rooms are as they were.
C38_LeaveClosesEveryOpenSession ==
    [][(last'.op = "endAllSessionsInRoom" /\ last'.status = "ok") =>
        LET u == last'.user_id
            r == last'.room_id
        IN  /\ OpenRows(sessions', u, r) = {}
            /\ IF OpenRows(sessions, u, r) # {}
               THEN /\ Len(last'.log) = 1
                    /\ last'.log[1].activity_type = "room_leave"
                    /\ last'.log[1].user_id = u
                    /\ last'.log[1].room_id = r
               ELSE last'.log = <<>>
            /\ DOMAIN sessions' = DOMAIN sessions
            /\ \A i \in DOMAIN sessions :
                  (sessions[i].user_id # u \/ sessions[i].room_id # r) =>
                      sessions'[i] = sessions[i]]_vars

\* a returned call that closed two open sessions of the pair at once
C38_Witness ==
    /\ last.op = "endAllSessionsInRoom" /\ last.status = "ok"
    /\ last.rows = 2
    /\ Len(last.log) = 1


\* callbacks of the batch function that have not returned yet
Running(d) == {k \in DOMAIN d.tasks : d.tasks[k].pc # "done"}

\* C32: while a cycle processes its rooms at most batchSize rooms are being
\* reconciled at once, every room of the earlier batches has finished, with
\* success or failure, before a room of the current batch runs, and every
\* collected room belongs to exactly one batch.
C32_BatchesBounded ==
    driver.phase = "processing" =>
        /\ Cardinality(Running(driver)) <= BatchSize
        /\ \A k \in Running(driver) : driver.i <= k /\ k < driver.i + BatchSize
        /\ \A k \in DOMAIN driver.allRoomsData :
              k < driver.i => /\ k \in DOMAIN driver.tasks
                              /\ driver.tasks[k].pc = "done"
                              /\ driver.tasks[k].outcome \in {"ok", "failed"}
        /\ \A k \in DOMAIN driver.allRoomsData :
              Cardinality({j \in 0..Len(driver.allRoomsData) :
                             k \in Batch(driver.allRoomsData, 1 + j * BatchSize)}) = 1

\* a room of the second batch is running after a room of the first batch
\* failed and another one succeeded
C32_Witness ==
    /\ driver.phase = "processing"
    /\ driver.i > 1
    /\ Running(driver) # {}
    /\ \E k1, k2 \in DOMAIN driver.tasks :
          /\ k1 < driver.i /\ k2 < driver.i
          /\ driver.tasks[k1].outcome = "failed"
          /\ driver.tasks[k2].outcome = "ok"


\* C33: the store writes of two intercepted payloads do not interleave: no
\* handler executes its upsertRoom for a room while the sequence another
\* handler started for that room has written but not finished.
C33_PayloadsSerialized ==
    driver.phase = "intercepting" =>
        \A h1, h2 \in HandlerIds :
            (/\ h1 # h2
             /\ driver.handlers[h1].pc = "sync"
             /\ driver.handlers[h2].pc = "sync") =>
                driver.handlers[h1].rooms[driver.handlers[h1].k].room_id #
                    driver.handlers[h2].rooms[driver.handlers[h2].k].room_id


\* C34: the entries an upsert of a user appends record as old the values
\* that were stored immediately before that upsert's own write, also when
\* another upsert of the same user runs concurrently.
C34_OldValueIsPredecessor ==
    driver.phase = "upserting" =>
        \A c \in UpsertCalls :
            (driver.calls[c].pc = "done" /\ driver.calls[c].log # <<>>) =>
                driver.calls[c].log = ProfileLog(driver.calls[c].before, driver.calls[c].written[1])


\* C35: after a room of a snapshot has been processed, upsertRoom followed
\* by processRoom, its stored current_users_count is the number of users
\* holding an open session in it, also when its participants did not change.
C35_CountMatchesOpenSessions ==
    [][(/\ last.op = "upsertRoom"
        /\ last'.op = "processRoom"
        /\ last'.room_id = last.room_id
        /\ last'.status = "ok") =>
            rooms'[last'.room_id].current_users_count =
                Cardinality(OpenUsers(sessions', last'.room_id))]_vars


\* C36: for every raw skill-level text the skill_level passed to upsertRoom
\* is one of Beginner, Intermediate, Advanced, Any Level, and the store does
\* not reject the room write because of it.
C36_SkillLevelAccepted ==
    last.op = "upsertScrapedRoom" =>
        /\ last.result[1] \in {"Beginner", "Intermediate", "Advanced", "Any Level"}
        /\ last.status = "ok"


\* the scroll loop is running: iteration driver.i has not ended
InScrollLoop == driver.phase = "scrolling" /\ driver.pc \in {"fetch", "process"}

\* C39: the scroll loop of a cycle terminates: it runs fewer than ScrollLimit
\* iterations and ends as soon as maxScrollsWithoutNew consecutive iterations
\* found no new room id; an iteration that found one resets that count to 0;
\* and a room id seen earlier in the cycle is not handed to processing again.
C39_ScrollLoopTerminates ==
    /\ [](InScrollLoop =>
            /\ driver.i < ScrollLimit
            /\ driver.scrollsWithoutNewRooms < maxScrollsWithoutNew
            /\ (driver.pc = "fetch" /\ driver.newRoomsCount > 0) =>
                  driver.scrollsWithoutNewRooms = 0)
    /\ [][(InScrollLoop /\ driver.pc = "fetch" /\ driver'.phase = "scrolling") =>
            LET new == driver'.roomsToProcess
            IN  /\ \A k \in DOMAIN new : new[k].room_id \notin driver.processedRoomIds
                /\ \A k1, k2 \in DOMAIN new : k1 # k2 => new[k1].room_id # new[k2].room_id
                /\ driver'.processedRoomIds =
                      driver.processedRoomIds \cup {new[k].room_id : k \in DOMAIN new}]_vars
    /\ [](InScrollLoop => <>(~InScrollLoop))

\* the loop was left by its break: rooms were found, then
\* maxScrollsWithoutNew iterations in a row found none, before the limit
C39_Witness ==
    /\ driver.phase = "scrolling" /\ driver.pc = "done"
    /\ driver.scrollsWithoutNewRooms = maxScrollsWithoutNew
    /\ driver.processedRoomIds # {}
    /\ driver.i < ScrollLimit


\* C40: saveToDatabase is all-or-nothing: when a write of the call fails,
\* after the rollback the store holds none of the group rows and none of the
\* user rows the call wrote.
C40_SaveAllOrNothing ==
    [][(last'.op = "saveToDatabase" /\ last'.status = "error") =>
        (rooms' = driver.groupsBefore /\ users' = driver.usersBefore)]_vars

====
